---- MODULE Spec2Model ----
(***************************************************************************)
(* Model of pysdsl/types/wavelet.hpp: the Python-facing query operations   *)
(* registered on every wavelet structure (rank, select, inverse_select,    *)
(* the lex-ordered queries, interval_symbols, range_search_2d), each as    *)
(* the lambda the binding registers: its argument checks, the exception    *)
(* it throws, and the call it forwards to the underlying structure.        *)
(*                                                                         *)
(* The underlying structure (sdsl's wavelet tree) is not part of the       *)
(* source file.  It is modelled here as the level bit vectors of a         *)
(* bit-plane wavelet tree together with the descent algorithms of the      *)
(* design (sections 4.1 - 4.8).  A forwarded call whose arguments lie      *)
(* outside the contract of the underlying operation has no defined result: *)
(* it ends in a crash or in an arbitrary value.                            *)
(***************************************************************************)
EXTENDS Integers, Sequences, FiniteSets, TLC

\* ------------------------------------------------------------------ bounds
\* Longest input sequence built.
MaxLen == 3
\* Symbols are drawn from 0 .. MaxSym.
MaxSym == 2

Symbols == 0 .. MaxSym
\* Position and count arguments handed to a query: one past the size included.
Positions == 0 .. (MaxLen + 1)

\* ------------------------------------------------------------ sequences
RECURSIVE SeqsUpTo(_)
SeqsUpTo(k) ==
    IF k = 0 THEN { <<>> }
    ELSE LET shorter == SeqsUpTo(k - 1)
         IN  shorter \cup { Append(s, c) : s \in { t \in shorter : Len(t) = k - 1 }, c \in Symbols }

Range(s) == { s[p] : p \in DOMAIN s }

Max(set) == CHOOSE m \in set : \A x \in set : x <= m
Min(set) == CHOOSE m \in set : \A x \in set : m <= x

\* Number of p in lo .. hi-1 (0-indexed positions) with s[p+1] satisfying the test.
CountEq(s, lo, hi, c) == Cardinality({ p \in lo .. (hi - 1) : s[p + 1] = c })
CountLt(s, lo, hi, c) == Cardinality({ p \in lo .. (hi - 1) : s[p + 1] < c })
CountGt(s, lo, hi, c) == Cardinality({ p \in lo .. (hi - 1) : s[p + 1] > c })

\* ---------------------------------------------------- 4.1 BitRankSelect
\* rank1(i): set bits in [0, i) of bit vector b.
rank1(b, i) == Cardinality({ p \in 1 .. i : b[p] = 1 })
rank0(b, i) == i - rank1(b, i)
\* select1(k): 0-indexed position of the k-th set bit (k counted from 1).
select1(b, k) == CHOOSE p \in 0 .. (Len(b) - 1) : b[p + 1] = 1 /\ rank1(b, p) = k - 1
select0(b, k) == CHOOSE p \in 0 .. (Len(b) - 1) : b[p + 1] = 0 /\ rank0(b, p) = k - 1

\* ---------------------------------------------------- 4.2 AlphabetCoder
\* Bit-plane coding: the number of bits of the largest symbol (at least 1).
RECURSIVE BitLen(_)
BitLen(v) == IF v <= 1 THEN 1 ELSE 1 + BitLen(v \div 2)

\* Bit l (0 = most significant) of the L-bit code of v.
CodeBit(v, l, L) == (v \div (2 ^ (L - 1 - l))) % 2

\* ------------------------------------------------------ 4.3 WaveletCore
\* Stable regrouping of s by the leading l bits of each code: within every
\* node the 0-bit symbols come before the 1-bit symbols, order kept.
RECURSIVE GroupBy(_, _, _, _)
GroupBy(s, l, L, prefix) ==
    IF prefix = 2 ^ l THEN <<>>
    ELSE SelectSeq(s, LAMBDA v : v \div (2 ^ (L - l)) = prefix) \o GroupBy(s, l, L, prefix + 1)

LevelOrder(s, l, L) == GroupBy(s, l, L, 0)

LevelBits(s, l, L) ==
    LET o == LevelOrder(s, l, L)
    IN  [p \in 1 .. Len(o) |-> CodeBit(o[p], l, L)]

\* build(sequence): size, effective alphabet size, levels and one bit vector
\* per level.
build(s) ==
    LET L == IF s = <<>> THEN 0 ELSE BitLen(Max(Range(s)))
    IN  [ n         |-> Len(s),
          sigma     |-> Cardinality(Range(s)),
          max_level |-> L,
          tree      |-> [l \in 1 .. L |-> LevelBits(s, l - 1, L)] ]

\* Ones before the node's start, and the node's two children.  A node is a
\* (level, offset, size) view into the level's bit vector.
OnesAt(w, l, off, b) == rank1(w.tree[l + 1], off + b) - rank1(w.tree[l + 1], off)

\* rank(i, c): descent from the root along code(c), translating the bound i
\* into each child's local coordinates with rank1.
RECURSIVE RankDescent(_, _, _, _, _, _)
RankDescent(w, l, off, size, b, c) ==
    IF l = w.max_level THEN b
    ELSE LET ones  == OnesAt(w, l, off, size)
             onesb == OnesAt(w, l, off, b)
         IN  IF CodeBit(c, l, w.max_level) = 1
             THEN RankDescent(w, l + 1, off + (size - ones), ones, onesb, c)
             ELSE RankDescent(w, l + 1, off, size - ones, b - onesb, c)

wt_rank(w, i, c) ==
    IF c >= 2 ^ w.max_level THEN 0 ELSE RankDescent(w, 0, 0, w.n, i, c)

\* The node at level l on the path of code(c).
RECURSIVE NodeOnPath(_, _, _)
NodeOnPath(w, l, c) ==
    IF l = 0 THEN [off |-> 0, size |-> w.n]
    ELSE LET par  == NodeOnPath(w, l - 1, c)
             ones == OnesAt(w, l - 1, par.off, par.size)
         IN  IF CodeBit(c, l - 1, w.max_level) = 1
             THEN [off |-> par.off + (par.size - ones), size |-> ones]
             ELSE [off |-> par.off, size |-> par.size - ones]

\* select(k, c): ascent from the leaf of code(c); pos is the 1-indexed local
\* position in the node at level l, translated to the parent with select1 /
\* select0 following the bits of code(c) in reverse.
RECURSIVE SelectAscend(_, _, _, _)
SelectAscend(w, l, pos, c) ==
    IF l = 0 THEN pos - 1
    ELSE LET par == NodeOnPath(w, l - 1, c)
             B   == w.tree[l]
         IN  IF CodeBit(c, l - 1, w.max_level) = 1
             THEN SelectAscend(w, l - 1, select1(B, rank1(B, par.off) + pos) - par.off + 1, c)
             ELSE SelectAscend(w, l - 1, select0(B, rank0(B, par.off) + pos) - par.off + 1, c)

wt_select(w, k, c) == SelectAscend(w, w.max_level, k, c)

\* inverse_select(i): one descent that reads the bit at the translated
\* position, accumulating the code and the position; returns (rank, symbol).
RECURSIVE InverseSelectDescent(_, _, _, _, _, _)
InverseSelectDescent(w, l, off, size, i, code) ==
    IF l = w.max_level THEN << i, code >>
    ELSE LET ones  == OnesAt(w, l, off, size)
             onesb == OnesAt(w, l, off, i)
         IN  IF w.tree[l + 1][off + i + 1] = 1
             THEN InverseSelectDescent(w, l + 1, off + (size - ones), ones, onesb, 2 * code + 1)
             ELSE InverseSelectDescent(w, l + 1, off, size - ones, i - onesb, 2 * code)

wt_inverse_select(w, i) == InverseSelectDescent(w, 0, 0, w.n, i, 0)

\* ---------------------------------------------- 4.4 LexOrderedExtension
\* quantile_freq(lb, rb, q): at each node compare q with the number of
\* elements of the range that fall into the left child.  lo, hi are the
\* local bounds of the half-open range.
RECURSIVE QuantileDescent(_, _, _, _, _, _, _, _)
QuantileDescent(w, l, off, size, lo, hi, q, code) ==
    IF l = w.max_level THEN << code, hi - lo >>
    ELSE LET ones   == OnesAt(w, l, off, size)
             oneslo == OnesAt(w, l, off, lo)
             oneshi == OnesAt(w, l, off, hi)
             zeros  == (hi - lo) - (oneshi - oneslo)
         IN  IF q < zeros
             THEN QuantileDescent(w, l + 1, off, size - ones, lo - oneslo, hi - oneshi, q, 2 * code)
             ELSE QuantileDescent(w, l + 1, off + (size - ones), ones, oneslo, oneshi,
                                  q - zeros, 2 * code + 1)

sdsl_quantile_freq(w, lb, rb, q) == QuantileDescent(w, 0, 0, w.n, lb, rb + 1, q, 0)

\* lex_count(i, j, c): one descent comparing against code(c) at each level.
RECURSIVE LexCountDescent(_, _, _, _, _, _, _, _, _)
LexCountDescent(w, l, off, size, bi, bj, c, smaller, greater) ==
    IF l = w.max_level THEN << bi, smaller, greater >>
    ELSE LET ones  == OnesAt(w, l, off, size)
             onesi == OnesAt(w, l, off, bi)
             onesj == OnesAt(w, l, off, bj)
         IN  IF CodeBit(c, l, w.max_level) = 1
             THEN LexCountDescent(w, l + 1, off + (size - ones), ones, onesi, onesj, c,
                                  smaller + ((bj - onesj) - (bi - onesi)), greater)
             ELSE LexCountDescent(w, l + 1, off, size - ones, bi - onesi, bj - onesj, c,
                                  smaller, greater + (onesj - onesi))

wt_lex_count(w, i, j, c) ==
    IF c >= 2 ^ w.max_level THEN << 0, j - i, 0 >>
    ELSE LexCountDescent(w, 0, 0, w.n, i, j, c, 0, 0)

\* lex_smaller_count(i, c): the same descent over the prefix [0, i).
RECURSIVE LexSmallerDescent(_, _, _, _, _, _, _)
LexSmallerDescent(w, l, off, size, b, c, smaller) ==
    IF l = w.max_level THEN << b, smaller >>
    ELSE LET ones  == OnesAt(w, l, off, size)
             onesb == OnesAt(w, l, off, b)
         IN  IF CodeBit(c, l, w.max_level) = 1
             THEN LexSmallerDescent(w, l + 1, off + (size - ones), ones, onesb, c,
                                    smaller + (b - onesb))
             ELSE LexSmallerDescent(w, l + 1, off, size - ones, b - onesb, c, smaller)

wt_lex_smaller_count(w, i, c) ==
    IF c >= 2 ^ w.max_level THEN << 0, i >>
    ELSE LexSmallerDescent(w, 0, 0, w.n, i, c, 0)

\* symbol_lte(c): the nearest populated leaf at or below c; (found, symbol).
RECURSIVE SymbolLteDescent(_, _, _, _, _, _)
SymbolLteDescent(w, l, off, size, code, c) ==
    IF size = 0 THEN << FALSE, 0 >>
    ELSE IF l = w.max_level THEN (IF code <= c THEN << TRUE, code >> ELSE << FALSE, 0 >>)
    ELSE LET ones  == OnesAt(w, l, off, size)
             right == IF (2 * code + 1) * (2 ^ (w.max_level - l - 1)) <= c
                      THEN SymbolLteDescent(w, l + 1, off + (size - ones), ones, 2 * code + 1, c)
                      ELSE << FALSE, 0 >>
         IN  IF right[1] THEN right
             ELSE SymbolLteDescent(w, l + 1, off, size - ones, 2 * code, c)

sdsl_symbol_lte(w, c) == SymbolLteDescent(w, 0, 0, w.n, 0, c)

\* symbol_gte(c): the nearest populated leaf at or above c; (found, symbol).
RECURSIVE SymbolGteDescent(_, _, _, _, _, _)
SymbolGteDescent(w, l, off, size, code, c) ==
    IF size = 0 THEN << FALSE, 0 >>
    ELSE IF l = w.max_level THEN (IF code >= c THEN << TRUE, code >> ELSE << FALSE, 0 >>)
    ELSE LET ones == OnesAt(w, l, off, size)
             left == IF (2 * code + 1) * (2 ^ (w.max_level - l - 1)) - 1 >= c
                     THEN SymbolGteDescent(w, l + 1, off, size - ones, 2 * code, c)
                     ELSE << FALSE, 0 >>
         IN  IF left[1] THEN left
             ELSE SymbolGteDescent(w, l + 1, off + (size - ones), ones, 2 * code + 1, c)

sdsl_symbol_gte(w, c) == SymbolGteDescent(w, 0, 0, w.n, 0, c)

\* restricted_unique_range_values: recursive range pruning; a subtree is
\* discarded when its position range is empty or its code range cannot meet
\* [y_i, y_j].  Ascending order follows from visiting left before right.
RECURSIVE UniqueValuesDescent(_, _, _, _, _, _, _, _, _)
UniqueValuesDescent(w, l, off, size, lo, hi, code, y_i, y_j) ==
    LET width == 2 ^ (w.max_level - l)
    IN  IF lo = hi \/ code * width > y_j \/ (code + 1) * width - 1 < y_i THEN <<>>
        ELSE IF l = w.max_level THEN << code >>
        ELSE LET ones   == OnesAt(w, l, off, size)
                 oneslo == OnesAt(w, l, off, lo)
                 oneshi == OnesAt(w, l, off, hi)
             IN  UniqueValuesDescent(w, l + 1, off, size - ones, lo - oneslo, hi - oneshi,
                                     2 * code, y_i, y_j)
                 \o UniqueValuesDescent(w, l + 1, off + (size - ones), ones, oneslo, oneshi,
                                        2 * code + 1, y_i, y_j)

sdsl_restricted_unique_range_values(w, x_i, x_j, y_i, y_j) ==
    UniqueValuesDescent(w, 0, 0, w.n, x_i, x_j + 1, 0, y_i, y_j)

\* ------------------------------------------- 4.8 IntervalSymbolsEngine
\* interval_symbols(i, j): a descent tracking the translated [i, j), branching
\* into every child where it is non-empty, recording (c, rank(i,c), rank(j,c))
\* at the leaves.
RECURSIVE IntervalDescent(_, _, _, _, _, _, _)
IntervalDescent(w, l, off, size, bi, bj, code) ==
    IF bi = bj THEN <<>>
    ELSE IF l = w.max_level THEN << << code, bi, bj >> >>
    ELSE LET ones  == OnesAt(w, l, off, size)
             onesi == OnesAt(w, l, off, bi)
             onesj == OnesAt(w, l, off, bj)
         IN  IntervalDescent(w, l + 1, off, size - ones, bi - onesi, bj - onesj, 2 * code)
             \o IntervalDescent(w, l + 1, off + (size - ones), ones, onesi, onesj, 2 * code + 1)

sdsl_interval_symbols(w, i, j) == IntervalDescent(w, 0, 0, w.n, i, j, 0)

\* --------------------------------------------- 4.6 RangeQueryEngine
\* range_search_2d: the same pruning descent; at a leaf every position of the
\* translated range is mapped back to the root.  Returns (count, points).
RECURSIVE RangeSearchDescent(_, _, _, _, _, _, _, _, _)
RangeSearchDescent(w, l, off, size, lo, hi, code, vlb, vrb) ==
    LET width == 2 ^ (w.max_level - l)
    IN  IF lo = hi \/ code * width > vrb \/ (code + 1) * width - 1 < vlb THEN <<>>
        ELSE IF l = w.max_level
             THEN [r \in 1 .. (hi - lo) |-> << SelectAscend(w, l, lo + r, code), code >>]
        ELSE LET ones   == OnesAt(w, l, off, size)
                 oneslo == OnesAt(w, l, off, lo)
                 oneshi == OnesAt(w, l, off, hi)
             IN  RangeSearchDescent(w, l + 1, off, size - ones, lo - oneslo, hi - oneshi,
                                    2 * code, vlb, vrb)
                 \o RangeSearchDescent(w, l + 1, off + (size - ones), ones, oneslo, oneshi,
                                       2 * code + 1, vlb, vrb)

wt_range_search_2d(w, lb, rb, vlb, vrb, report) ==
    LET points == RangeSearchDescent(w, 0, 0, w.n, lb, rb + 1, 0, vlb, vrb)
    IN  << Len(points), IF report THEN points ELSE <<>> >>

\* ------------------------------------------------ 4.7 IntersectionEngine
\* The restriction of every range of rs to a child of the node, the empty
\* restrictions dropped.  Ranges are local and half-open: << lo, hi >>.
ChildRanges(w, l, off, rs, right) ==
    LET moved == [p \in DOMAIN rs |->
                     LET oneslo == OnesAt(w, l, off, rs[p][1])
                         oneshi == OnesAt(w, l, off, rs[p][2])
                     IN  IF right THEN << oneslo, oneshi >>
                         ELSE << rs[p][1] - oneslo, rs[p][2] - oneshi >>]
    IN  SelectSeq(moved, LAMBDA r : r[1] < r[2])

RECURSIVE RangeSizes(_)
RangeSizes(rs) == IF rs = << >> THEN 0 ELSE (Head(rs)[2] - Head(rs)[1]) + RangeSizes(Tail(rs))

\* The synchronized multi-range descent: a node with fewer than t non-empty
\* restrictions is discarded; a leaf emits (symbol, summed range sizes).
RECURSIVE IntersectDescent(_, _, _, _, _, _, _)
IntersectDescent(w, l, off, size, rs, code, t) ==
    IF l = w.max_level
    THEN (IF t <= Len(rs) THEN << << code, RangeSizes(rs) >> >> ELSE << >>)
    ELSE LET ones   == OnesAt(w, l, off, size)
             lefts  == ChildRanges(w, l, off, rs, FALSE)
             rights == ChildRanges(w, l, off, rs, TRUE)
         IN  (IF Len(lefts) >= t
              THEN IntersectDescent(w, l + 1, off, size - ones, lefts, 2 * code, t)
              ELSE << >>)
             \o (IF Len(rights) >= t
                 THEN IntersectDescent(w, l + 1, off + (size - ones), ones, rights, 2 * code + 1, t)
                 ELSE << >>)

\* intersect(ranges, t): ranges are inclusive << s, e >> pairs; t = 0 stands
\* for the number of ranges.
sdsl_intersect(w, ranges, t) ==
    IF ranges = << >> THEN << >>
    ELSE IntersectDescent(w, 0, 0, w.n,
                          [p \in DOMAIN ranges |-> << ranges[p][1], ranges[p][2] + 1 >>],
                          0, IF t = 0 THEN Len(ranges) ELSE t)

\* ------------------------------------------------------ structure variants
\* The class templates add_wavelet registers.
Kinds == { "wt_int", "wm_int", "wt_huff", "wt_huff_int", "wt_hutu", "wt_hutu_int",
           "wt_blcd", "wt_blcd_int", "wt_gmr_rs", "wt_gmr", "wt_ap" }

\* T::lex_ordered: the coder preserves symbol order (bit-plane, Hu-Tucker,
\* balanced), not Huffman.
lex_ordered(k) == k \in { "wt_int", "wm_int", "wt_hutu", "wt_hutu_int", "wt_blcd", "wt_blcd_int" }

\* sdsl::has_node_type<T>: the structure keeps a navigable tree shape.
has_node_type(k) == k \in { "wt_int", "wt_huff", "wt_huff_int", "wt_hutu", "wt_hutu_int",
                            "wt_blcd", "wt_blcd_int" }

\* add_wm_int registers the one wavelet-matrix class, WaveletMatrixInt*, over
\* sdsl::wm_int; every other variant is a wavelet tree or one of wt_gmr_rs,
\* wt_gmr, wt_ap.
wavelet_matrix(k) == k = "wm_int"

\* add_wavelet_specific: only the overload for sdsl::wt_int<T...> registers
\* range_search_2d; the generic overload registers nothing.
add_wavelet_specific(k) == IF k = "wt_int" THEN { "range_search_2d" } ELSE {}

\* --------------------------------------------------------------- outcomes
\* The C++ exceptions the lambdas throw, by the error kind each surfaces as.
IndexOutOfRange == "out_of_range"
InvalidQuery    == "invalid_argument"
NotFound        == "runtime_error"

Ok(v)    == [kind |-> "ok", val |-> v, err |-> "none"]
Throw(e) == [kind |-> "throw", val |-> << >>, err |-> e]

\* A call outside the contract of the underlying operation: the build either
\* crashes on the out-of-bounds access or returns an arbitrary value.
Undefined == { [kind |-> "crash", val |-> << >>, err |-> "none"],
               [kind |-> "garbage", val |-> << >>, err |-> "none"] }

\* What one invocation of a lambda does: the possible outcomes, and the calls
\* it made into the underlying structure, in order.
Raise(e) == [outs |-> { Throw(e) }, calls |-> << >>]
Forward(fn, args, pre, result) ==
    [outs |-> IF pre THEN { Ok(result) } ELSE Undefined, calls |-> << << fn, args >> >>]

\* ---------------------------------------------------- add_wavelet_class
rank(w, i, c) ==
    IF i >= w.n THEN Raise("out_of_range")
    ELSE Forward("rank", << i, c >>, i <= w.n, wt_rank(w, i, c))

\* inverse_select with the bound check off by one (i > size).
inverse_select_loose(w, i) ==
    IF i > w.n THEN Raise("out_of_range")
    ELSE Forward("inverse_select", << i >>, i < w.n, wt_inverse_select(w, i))

inverse_select(w, i) ==
    IF i >= w.n THEN Raise("out_of_range")
    ELSE Forward("inverse_select", << i >>, i < w.n, wt_inverse_select(w, i))

select(w, i, c) ==
    IF i < 1 \/ i >= w.n THEN Raise("out_of_range")
    ELSE IF i > wt_rank(w, w.n, c)
         THEN [outs |-> { Throw("invalid_argument") }, calls |-> << << "rank", << w.n, c >> >> >>]
         ELSE [outs  |-> { Ok(wt_select(w, i, c)) },
               calls |-> << << "rank", << w.n, c >> >>, << "select", << i, c >> >> >>]

\* ------------------------------------------------- add_lex_functor<T, true>
quantile_freq(w, lb, rb, q) ==
    Forward("quantile_freq", << lb, rb, q >>, lb <= rb /\ rb < w.n /\ q < rb - lb + 1,
            sdsl_quantile_freq(w, lb, rb, q))

lex_count(w, i, j, c) ==
    IF j >= w.n THEN Raise("invalid_argument")
    ELSE IF i >= j THEN Raise("invalid_argument")
    ELSE Forward("lex_count", << i, j, c >>, i <= j /\ j <= w.n, wt_lex_count(w, i, j, c))

lex_smaller_count(w, i, c) ==
    IF i >= w.n THEN Raise("invalid_argument")
    ELSE Forward("lex_smaller_count", << i, c >>, i <= w.n, wt_lex_smaller_count(w, i, c))

\* symbol_lte without the check of the found flag.
symbol_lte_unchecked(w, c) ==
    [outs |-> { Ok(sdsl_symbol_lte(w, c)[2]) }, calls |-> << << "symbol_lte", << c >> >> >>]

symbol_lte(w, c) ==
    LET result == sdsl_symbol_lte(w, c)
    IN  [outs  |-> { IF ~result[1] THEN Throw("runtime_error") ELSE Ok(result[2]) },
         calls |-> << << "symbol_lte", << c >> >> >>]

symbol_gte(w, c) ==
    LET result == sdsl_symbol_gte(w, c)
    IN  [outs  |-> { IF ~result[1] THEN Throw("runtime_error") ELSE Ok(result[2]) },
         calls |-> << << "symbol_gte", << c >> >> >>]

restricted_unique_range_values(w, x_i, x_j, y_i, y_j) ==
    Forward("restricted_unique_range_values", << x_i, x_j, y_i, y_j >>,
            x_i <= x_j /\ x_j < w.n /\ y_i <= y_j,
            sdsl_restricted_unique_range_values(w, x_i, x_j, y_i, y_j))

\* ------------------------------------------ add_traversable_functor<T, true>
\* The three result vectors are allocated with sigma entries; the underlying
\* call fills the first k.
PadTo(s, m) == s \o [p \in 1 .. (m - Len(s)) |-> 0]

\* interval_symbols with the strict bound check of the counting queries
\* (j >= size).
interval_symbols_strict(w, i, j) ==
    IF j >= w.n \/ i > j THEN Raise("invalid_argument")
    ELSE Forward("interval_symbols", << i, j >>, TRUE,
                 LET found == sdsl_interval_symbols(w, i, j)
                 IN  << Len(found),
                        PadTo([p \in 1 .. Len(found) |-> found[p][1]], w.sigma),
                        PadTo([p \in 1 .. Len(found) |-> found[p][2]], w.sigma),
                        PadTo([p \in 1 .. Len(found) |-> found[p][3]], w.sigma) >>)

interval_symbols(w, i, j) ==
    IF j > w.n THEN Raise("invalid_argument")
    ELSE IF i > j THEN Raise("invalid_argument")
    ELSE LET found == sdsl_interval_symbols(w, i, j)
             k     == Len(found)
         IN  Forward("interval_symbols", << i, j >>, i <= j /\ j <= w.n,
                     << k,
                        PadTo([p \in 1 .. k |-> found[p][1]], w.sigma),
                        PadTo([p \in 1 .. k |-> found[p][2]], w.sigma),
                        PadTo([p \in 1 .. k |-> found[p][3]], w.sigma) >>)

\* intersect that drops the threshold it was given.
intersect_without_t(w, ranges, t) ==
    Forward("intersect", << ranges, t >>,
            \A p \in DOMAIN ranges : ranges[p][1] <= ranges[p][2] + 1 /\ ranges[p][2] < w.n,
            sdsl_intersect(w, ranges, 0))

\* The threshold argument is optional: py::arg("t") = 0.
intersect(w, ranges, t) ==
    Forward("intersect", << ranges, t >>,
            \A p \in DOMAIN ranges : ranges[p][1] <= ranges[p][2] + 1 /\ ranges[p][2] < w.n,
            sdsl_intersect(w, ranges, t))

\* ------------------------------------- add_wavelet_specific(wt_int<T...>)
range_search_2d(w, lb, rb, vlb, vrb, report) ==
    Forward("range_search_2d", << lb, rb, vlb, vrb, report >>,
            lb <= rb /\ rb < w.n /\ vlb <= vrb,
            wt_range_search_2d(w, lb, rb, vlb, vrb, report))

\* ------------------------------------------------------------------ state
VARIABLES
    seq,    \* the input sequence the structure was built from (for reference)
    kind,   \* the registered class of the structure
    wt,     \* the built structure: n, sigma, max_level, level bit vectors
    last,   \* the last query: its name, arguments, outcome and forwarded calls
    threads, \* per Python thread: the query it has in flight and how far it is
    gil     \* the thread holding the interpreter lock, or GilFree

vars == << seq, kind, wt, last, threads, gil >>

\* The Python threads that query the one structure.
Threads == { "t1", "t2" }
GilFree == "free"
Idle == [pc |-> "idle", op |-> "none", args |-> << >>, out |-> Ok(<< >>)]

NoQuery == [op |-> "none", args |-> << >>, out |-> Ok(<< >>), calls |-> << >>]

\* A structure built (from_bytes, from_binary_file, parse_string) from a
\* non-empty sequence; queries start once construction has completed.
Init ==
    /\ seq \in { s \in SeqsUpTo(MaxLen) : s # << >> }
    /\ kind \in Kinds
    /\ wt = build(seq)
    /\ last = NoQuery
    /\ threads = [t \in Threads |-> Idle]
    /\ gil = GilFree

\* One query, issued by a caller that holds no pending result: the structure
\* is read, never written.
Do(name, args, r) ==
    /\ last = NoQuery
    /\ \E o \in r.outs : last' = [op |-> name, args |-> args, out |-> o, calls |-> r.calls]
    /\ UNCHANGED << seq, kind, wt, threads, gil >>

Rank == \E i \in Positions, c \in Symbols : Do("rank", << i, c >>, rank(wt, i, c))

InverseSelect == \E i \in Positions : Do("inverse_select", << i >>, inverse_select(wt, i))

Select == \E i \in Positions, c \in Symbols : Do("select", << i, c >>, select(wt, i, c))

QuantileFreq ==
    /\ lex_ordered(kind)
    /\ \E lb \in Positions, rb \in Positions, q \in Positions :
           Do("quantile_freq", << lb, rb, q >>, quantile_freq(wt, lb, rb, q))

LexCount ==
    /\ lex_ordered(kind)
    /\ \E i \in Positions, j \in Positions, c \in Symbols :
           Do("lex_count", << i, j, c >>, lex_count(wt, i, j, c))

LexSmallerCount ==
    /\ lex_ordered(kind)
    /\ \E i \in Positions, c \in Symbols :
           Do("lex_smaller_count", << i, c >>, lex_smaller_count(wt, i, c))

SymbolLte ==
    /\ lex_ordered(kind)
    /\ \E c \in Symbols : Do("symbol_lte", << c >>, symbol_lte(wt, c))

SymbolGte ==
    /\ lex_ordered(kind)
    /\ \E c \in Symbols : Do("symbol_gte", << c >>, symbol_gte(wt, c))

RestrictedUniqueRangeValues ==
    /\ lex_ordered(kind)
    /\ \E x_i \in Positions, x_j \in Positions, y_i \in Symbols, y_j \in Symbols :
           Do("restricted_unique_range_values", << x_i, x_j, y_i, y_j >>,
              restricted_unique_range_values(wt, x_i, x_j, y_i, y_j))

IntervalSymbols ==
    /\ has_node_type(kind)
    /\ \E i \in Positions, j \in Positions :
           Do("interval_symbols", << i, j >>, interval_symbols(wt, i, j))

\* The inclusive ranges << s, e >> a caller passes, and the vectors of one or
\* two of them (a vector of two is listed once, not once per order).
IntersectRanges == { r \in (0 .. MaxLen) \X (0 .. MaxLen) : r[1] <= r[2] }
RangeVectors ==
    { << r >> : r \in IntersectRanges }
        \cup { v \in IntersectRanges \X IntersectRanges :
                   v[1][1] < v[2][1] \/ (v[1][1] = v[2][1] /\ v[1][2] <= v[2][2]) }

Intersect ==
    /\ has_node_type(kind)
    /\ \E ranges \in RangeVectors : \E t \in 0 .. 2 :
           Do("intersect", << ranges, t >>, intersect(wt, ranges, t))

RangeSearch2d ==
    /\ "range_search_2d" \in add_wavelet_specific(kind)
    /\ \E lb \in Positions, rb \in Positions, vlb \in Symbols, vrb \in Symbols, report \in BOOLEAN :
           Do("range_search_2d", << lb, rb, vlb, vrb, report >>,
              range_search_2d(wt, lb, rb, vlb, vrb, report))

\* The caller takes the outcome (the value or the exception) and goes on.
Return ==
    /\ last # NoQuery
    /\ last' = NoQuery
    /\ UNCHANGED << seq, kind, wt, threads, gil >>

Next ==
    \/ Rank
    \/ InverseSelect
    \/ Select
    \/ QuantileFreq
    \/ LexCount
    \/ LexSmallerCount
    \/ SymbolLte
    \/ SymbolGte
    \/ RestrictedUniqueRangeValues
    \/ IntervalSymbols
    \/ Intersect
    \/ RangeSearch2d
    \/ Return

Spec == Init /\ [][Next]_vars

\* The queries of add_wavelet_class alone.
NextCore ==
    \/ Rank
    \/ InverseSelect
    \/ Select
    \/ Return

SpecCore == Init /\ [][NextCore]_vars

\* The counting queries of add_lex_functor.
NextLex ==
    \/ QuantileFreq
    \/ LexCount
    \/ LexSmallerCount
    \/ Return

SpecLex == Init /\ [][NextLex]_vars

\* The predecessor / successor queries of add_lex_functor.
NextSymbol ==
    \/ SymbolLte
    \/ SymbolGte
    \/ Return

SpecSymbol == Init /\ [][NextSymbol]_vars

\* The queries of add_traversable_functor.
NextTraversal ==
    \/ IntervalSymbols
    \/ Return

SpecTraversal == Init /\ [][NextTraversal]_vars

\* The intersection engine on its own.
NextIntersect ==
    \/ Intersect
    \/ Return

\* One lex-ordered and one not lex-ordered class of those that get intersect.
InitIntersect == Init /\ kind \in { "wt_int", "wt_huff" }

SpecIntersect == InitIntersect /\ [][NextIntersect]_vars

\* ------------------------------------------------- concurrent queries
\* The lambdas registered with py::call_guard<py::gil_scoped_release> run
\* without the interpreter lock; symbol_lte and symbol_gte have no call
\* guard and keep it.
releases_gil(op) == op \in { "rank", "inverse_select", "select" }

\* The queries a thread may issue on a structure w of class k: at the first
\* two positions and at position n, for every symbol.
ConcurrentQueries(k, w) ==
    { << op, << i, c >> >> : op \in { "rank", "select" }, i \in { 0, 1, w.n }, c \in Symbols }
        \cup { << "inverse_select", << i >> >> : i \in { 0, 1, w.n } }
        \cup (IF lex_ordered(k)
              THEN { << op, << c >> >> : op \in { "symbol_lte", "symbol_gte" }, c \in Symbols }
              ELSE {})

\* The lambda of a query applied to self = w.
Lambda(w, op, args) ==
    CASE op = "rank"           -> rank(w, args[1], args[2])
      [] op = "select"         -> select(w, args[1], args[2])
      [] op = "inverse_select" -> inverse_select(w, args[1])
      [] op = "symbol_lte"     -> symbol_lte(w, args[1])
      [] op = "symbol_gte"     -> symbol_gte(w, args[1])

\* A thread holding the interpreter lock calls a bound method; the call guard,
\* where there is one, releases the lock before the lambda body runs.
Begin(t) ==
    /\ threads[t].pc = "idle"
    /\ gil = GilFree
    /\ \E q \in ConcurrentQueries(kind, wt) :
           /\ threads' = [threads EXCEPT ![t] = [pc |-> "check", op |-> q[1],
                                                 args |-> q[2], out |-> Ok(<< >>)]]
           /\ gil' = IF releases_gil(q[1]) THEN GilFree ELSE t
    /\ UNCHANGED << seq, kind, wt, last >>

\* The guards at the head of the lambda, read from self as it is now: a guard
\* that fails throws before the structure is queried.
Check(t) ==
    /\ threads[t].pc = "check"
    /\ LET r == Lambda(wt, threads[t].op, threads[t].args)
       IN  IF r.calls = << >>
           THEN \E o \in r.outs :
                    threads' = [threads EXCEPT ![t].pc = "done", ![t].out = o]
           ELSE threads' = [threads EXCEPT ![t].pc = "descend"]
    /\ UNCHANGED << seq, kind, wt, last, gil >>

\* Descend that leaves the structure with its level bit vectors cleared.
DescendClearing(t) ==
    /\ threads[t].pc = "descend"
    /\ \E o \in Lambda(wt, threads[t].op, threads[t].args).outs :
           threads' = [threads EXCEPT ![t].pc = "done", ![t].out = o]
    /\ wt' = [wt EXCEPT !.tree = [l \in DOMAIN wt.tree |-> << >>]]
    /\ UNCHANGED << seq, kind, last, gil >>

\* The calls on const T& self, read from self as it is now, and what the
\* lambda makes of their results.
Descend(t) ==
    /\ threads[t].pc = "descend"
    /\ \E o \in Lambda(wt, threads[t].op, threads[t].args).outs :
           threads' = [threads EXCEPT ![t].pc = "done", ![t].out = o]
    /\ UNCHANGED << seq, kind, wt, last, gil >>

\* The outcome goes back to the Python caller, which needs the lock for it.
Finish(t) ==
    /\ threads[t].pc = "done"
    /\ gil = IF releases_gil(threads[t].op) THEN GilFree ELSE t
    /\ threads' = [threads EXCEPT ![t] = Idle]
    /\ gil' = GilFree
    /\ UNCHANGED << seq, kind, wt, last >>

NextConcurrent ==
    \E t \in Threads :
        \/ Begin(t)
        \/ Check(t)
        \/ Descend(t)
        \/ Finish(t)

\* A class with all five queries.
InitConcurrent == Init /\ kind = "wt_int"

SpecConcurrent == InitConcurrent /\ [][NextConcurrent]_vars

\* ================================================================ claims
\* The last query ended with value v / with exception e.
Succeeds(v) == last.out.kind = "ok" /\ last.out.val = v
Fails(e)    == last.out.kind = "throw" /\ last.out.err = e

\* The symbols of seq[lo .. hi-1] (0-indexed, half-open).
SymbolsIn(s, lo, hi) == { s[p + 1] : p \in lo .. (hi - 1) }

RECURSIVE SumDiff(_, _, _)
SumDiff(hi, lo, k) == IF k = 0 THEN 0 ELSE (hi[k] - lo[k]) + SumDiff(hi, lo, k - 1)

\* C1: rank(i, c) is defined for every 0 <= i <= n, n included, and returns
\* the number of occurrences of c in S[0..i-1]; it fails with
\* IndexOutOfRange only when i > n.
C1_RankDefinedUpToSize ==
    last.op = "rank" =>
        LET i == last.args[1]
            c == last.args[2]
        IN  IF i <= wt.n THEN Succeeds(CountEq(seq, 0, i, c))
            ELSE Fails(IndexOutOfRange)

\* C2: for every 1 <= k <= rank(n, c), k = n included, select(k, c) returns
\* a position p with rank(p, c) = k - 1 and S[p] = c.
C2_SelectRankInverse ==
    (last.op = "select" /\ 1 <= last.args[1]
                        /\ last.args[1] <= CountEq(seq, 0, wt.n, last.args[2])) =>
        /\ last.out.kind = "ok"
        /\ last.out.val \in 0 .. (wt.n - 1)
        /\ CountEq(seq, 0, last.out.val, last.args[2]) = last.args[1] - 1
        /\ seq[last.out.val + 1] = last.args[2]

\* C3: select(k, c) fails with IndexOutOfRange exactly when k = 0 or k > n,
\* with InvalidQuery when 1 <= k <= n but k > rank(n, c), succeeds for every
\* other k, and a failing select has not started the select descent.
C3_SelectErrorKinds ==
    last.op = "select" =>
        LET k == last.args[1]
            c == last.args[2]
        IN  /\ Fails(IndexOutOfRange) <=> (k = 0 \/ k > wt.n)
            /\ Fails(InvalidQuery) <=> (1 <= k /\ k <= wt.n /\ k > CountEq(seq, 0, wt.n, c))
            /\ last.out.kind = "ok" <=> (1 <= k /\ k <= CountEq(seq, 0, wt.n, c))
            /\ last.out.kind = "throw" =>
                   \A p \in DOMAIN last.calls : last.calls[p][1] # "select"

\* C4: for 0 <= i < n, inverse_select(i) returns (occurrences of S[i] in
\* S[0..i-1], S[i]), so the symbol components rebuild the input; for i >= n
\* it fails with the out-of-range error.
C4_InverseSelect ==
    last.op = "inverse_select" =>
        LET i == last.args[1]
        IN  IF i < wt.n THEN Succeeds(<< CountEq(seq, 0, i, seq[i + 1]), seq[i + 1] >>)
            ELSE Fails(IndexOutOfRange)

\* C4 witness: a position past the first whose symbol has occurred before.
C4_Witness ==
    /\ last.op = "inverse_select"
    /\ last.out.kind = "ok"
    /\ last.args[1] >= 1
    /\ last.out.val[1] >= 1
    /\ last.out.val[2] >= 1

\* C5: lex_count(i, j, c) succeeds for every 0 <= i < j <= n, j = n included,
\* with (rank(i,c), values < c in S[i..j-1], values > c in S[i..j-1]); it
\* fails with InvalidQuery exactly when i >= j or j > n.
C5_LexCountFullRange ==
    last.op = "lex_count" =>
        LET i == last.args[1]
            j == last.args[2]
            c == last.args[3]
        IN  IF i < j /\ j <= wt.n
            THEN Succeeds(<< CountEq(seq, 0, i, c), CountLt(seq, i, j, c), CountGt(seq, i, j, c) >>)
            ELSE Fails(InvalidQuery)

\* C6: lex_smaller_count(i, c) succeeds for every 0 <= i <= n, i = n
\* included, with (rank(i,c), values < c in S[0..i-1]); it fails, with
\* IndexOutOfRange, exactly when i > n.
C6_LexSmallerCountUpToSize ==
    last.op = "lex_smaller_count" =>
        LET i == last.args[1]
            c == last.args[2]
        IN  IF i <= wt.n THEN Succeeds(<< CountEq(seq, 0, i, c), CountLt(seq, 0, i, c) >>)
            ELSE Fails(IndexOutOfRange)

\* C7: quantile_freq(lb, rb, q) fails with InvalidQuery whenever rb < lb,
\* rb >= n or q >= rb - lb + 1, and otherwise returns the q-th smallest
\* symbol of S[lb..rb] with its frequency in that range.
C7_QuantileFreqValidates ==
    last.op = "quantile_freq" =>
        LET lb == last.args[1]
            rb == last.args[2]
            q  == last.args[3]
        IN  IF rb < lb \/ rb >= wt.n \/ q >= rb - lb + 1 THEN Fails(InvalidQuery)
            ELSE /\ last.out.kind = "ok"
                 /\ CountLt(seq, lb, rb + 1, last.out.val[1]) <= q
                 /\ q < CountLt(seq, lb, rb + 1, last.out.val[1])
                        + CountEq(seq, lb, rb + 1, last.out.val[1])
                 /\ last.out.val[2] = CountEq(seq, lb, rb + 1, last.out.val[1])

\* The inputs of the last query hold a position bound outside the structure
\* or a malformed range.
MalformedBounds ==
    LET a == last.args
    IN  CASE last.op = "rank"              -> a[1] > wt.n
          [] last.op = "select"            -> a[1] = 0 \/ a[1] > wt.n
          [] last.op = "inverse_select"    -> a[1] >= wt.n
          [] last.op = "quantile_freq"     -> a[2] < a[1] \/ a[2] >= wt.n \/ a[3] >= a[2] - a[1] + 1
          [] last.op = "lex_count"         -> a[1] >= a[2] \/ a[2] > wt.n
          [] last.op = "lex_smaller_count" -> a[1] > wt.n
          [] last.op = "restricted_unique_range_values" -> a[1] > a[2] \/ a[2] >= wt.n
          [] last.op = "range_search_2d"   -> a[1] > a[2] \/ a[3] > a[4] \/ a[2] >= wt.n
          [] last.op = "interval_symbols"  -> a[1] > a[2] \/ a[2] > wt.n
          [] OTHER                         -> FALSE

\* C8: every query validates its bounds before any descent: on malformed
\* bounds it ends in an error and the underlying structure is never called
\* with them.
C8_BoundsValidatedBeforeDescent ==
    MalformedBounds =>
        /\ last.out.kind = "throw"
        /\ \A p \in DOMAIN last.calls : last.calls[p][1] # last.op

\* C9: for every 0 <= i <= j <= n, interval_symbols(i, j) succeeds with k the
\* number of distinct symbols of S[i..j-1], the first k entries being
\* distinct such symbols c with rank(i,c) and rank(j,c), and the differences
\* summing to j - i; it fails with InvalidQuery when i > j or j > n.
C9_IntervalSymbols ==
    last.op = "interval_symbols" =>
        LET i == last.args[1]
            j == last.args[2]
        IN  IF i <= j /\ j <= wt.n
            THEN /\ last.out.kind = "ok"
                 /\ LET k  == last.out.val[1]
                        cs == last.out.val[2]
                        ri == last.out.val[3]
                        rj == last.out.val[4]
                    IN  /\ k = Cardinality(SymbolsIn(seq, i, j))
                        /\ k <= Len(cs) /\ k <= Len(ri) /\ k <= Len(rj)
                        /\ \A a \in 1 .. k :
                               /\ cs[a] \in SymbolsIn(seq, i, j)
                               /\ ri[a] = CountEq(seq, 0, i, cs[a])
                               /\ rj[a] = CountEq(seq, 0, j, cs[a])
                               /\ \A b \in 1 .. k : a # b => cs[a] # cs[b]
                        /\ SumDiff(rj, ri, k) = j - i
            ELSE Fails(InvalidQuery)

\* C9 witness: an interval that ends at the size and holds two symbols.
C9_Witness ==
    /\ last.op = "interval_symbols"
    /\ last.out.kind = "ok"
    /\ last.args[2] = wt.n
    /\ last.args[1] >= 1
    /\ last.out.val[1] >= 2

\* C10: symbol_lte(c) returns the largest symbol <= c of the sequence and
\* symbol_gte(c) the smallest symbol >= c; each fails with NotFound exactly
\* when no symbol of the sequence satisfies the relation, and the symbol
\* returned always occurs in the sequence.
C10_SymbolNeighbours ==
    /\ last.op = "symbol_lte" =>
           LET below == { v \in Range(seq) : v <= last.args[1] }
           IN  IF below = {} THEN Fails(NotFound) ELSE Succeeds(Max(below))
    /\ last.op = "symbol_gte" =>
           LET above == { v \in Range(seq) : v >= last.args[1] }
           IN  IF above = {} THEN Fails(NotFound) ELSE Succeeds(Min(above))

\* C10 witness: a predecessor query for an absent symbol that finds a
\* smaller one, on a sequence that also holds a larger one.
C10_Witness ==
    /\ last.op = "symbol_lte"
    /\ last.out.kind = "ok"
    /\ last.out.val < last.args[1]
    /\ \E v \in Range(seq) : v > last.args[1]

\* The frequency of c summed over the inclusive ranges of a vector, and the
\* number of those ranges in which c occurs.
RECURSIVE FreqOver(_, _, _)
FreqOver(s, ranges, c) ==
    IF ranges = << >> THEN 0
    ELSE CountEq(s, Head(ranges)[1], Head(ranges)[2] + 1, c) + FreqOver(s, Tail(ranges), c)

RangesWith(s, ranges, c) ==
    Cardinality({ p \in DOMAIN ranges : CountEq(s, ranges[p][1], ranges[p][2] + 1, c) > 0 })

\* C11: intersect(ranges, t) over k >= 1 ranges inside the sequence returns
\* exactly the symbols that occur in at least t of the k ranges, each once
\* and paired with the sum of its frequencies over the ranges; t = 0, which
\* is what the binding passes when the threshold is omitted, means t = k, so
\* the result is the symbols common to all ranges; on a lex_ordered
\* structure the result is in ascending symbol order.
C11_Intersect ==
    (/\ last.op = "intersect"
     /\ \A p \in DOMAIN last.args[1] : last.args[1][p][2] < wt.n) =>
        LET ranges == last.args[1]
            k      == Len(ranges)
            t      == IF last.args[2] = 0 THEN k ELSE last.args[2]
            res    == last.out.val
        IN  /\ last.out.kind = "ok"
            /\ { res[p][1] : p \in DOMAIN res }
                   = { c \in Range(seq) : RangesWith(seq, ranges, c) >= t }
            /\ \A p \in DOMAIN res : res[p][2] = FreqOver(seq, ranges, res[p][1])
            /\ \A p, q \in DOMAIN res : p # q => res[p][1] # res[q][1]
            /\ lex_ordered(kind) =>
                   \A p, q \in DOMAIN res : p < q => res[p][1] < res[q][1]

\* C11 witness: with the threshold omitted, two overlapping ranges that
\* share one symbol and each hold a symbol the other lacks; the shared
\* symbol is returned with its summed frequency.
C11_Witness ==
    /\ last.op = "intersect"
    /\ lex_ordered(kind)
    /\ seq = << 1, 0, 2 >>
    /\ last.args = << << << 0, 1 >>, << 1, 2 >> >>, 0 >>
    /\ Succeeds(<< << 0, 2 >> >>)

\* C11 second case: the same ranges with threshold 1 return every symbol of
\* either range, in ascending order.
C11_WitnessAny ==
    /\ last.op = "intersect"
    /\ seq = << 1, 0, 2 >>
    /\ last.args = << << << 0, 1 >>, << 1, 2 >> >>, 1 >>
    /\ Succeeds(<< << 0, 2 >>, << 1, 1 >>, << 2, 1 >> >>)

\* C13: range_search_2d is offered on the wavelet-matrix layout and only
\* there: a registered variant exposes range_search_2d if and only if it is
\* the wavelet matrix, no tree-shaped variant exposes it, and so every
\* range_search_2d query that ran was made on a wavelet matrix.
C13_RangeSearchOnMatrixOnly ==
    /\ ("range_search_2d" \in add_wavelet_specific(kind)) <=> wavelet_matrix(kind)
    /\ has_node_type(kind) => "range_search_2d" \notin add_wavelet_specific(kind)
    /\ last.op = "range_search_2d" => wavelet_matrix(kind)

C12_WitnessFailing ==
    \E t, u \in Threads :
        /\ t # u
        /\ threads[t].pc = "done" /\ threads[t].out.kind = "throw"
        /\ threads[u].pc = "descend" /\ threads[u].op = "symbol_lte"

====
